---- MODULE Spec2Model ----
(***************************************************************************)
(* Model of the exponential-backoff crate: the Backoff configuration       *)
(* (src/src/lib.rs) and the IntoIter generator (src/src/into_iter.rs).     *)
(*                                                                         *)
(* Durations are natural numbers of ticks of 100 ms, saturating at         *)
(* DurationMAX                                                             *)
(* (std::time::Duration::MAX scaled down).  u32 values saturate at U32MAX  *)
(* (u32::MAX scaled down).  The f32 jitter fraction is kept in thousandths *)
(* (300 is 0.3), so that (jitter * 100f32) as u32 is a truncating          *)
(* division and not the identity.                                          *)
(***************************************************************************)
EXTENDS Integers, FiniteSets, Sequences, TLC

VARIABLES backoff, iters, hist, out, panic, setCalls, lastSet

vars == <<backoff, iters, hist, out, panic, setCalls, lastSet>>

(***************************************************************************)
(* Bounds.                                                                 *)
(***************************************************************************)
\* u32::MAX, scaled down.
U32MAX == 7

\* Duration::MAX in ticks, scaled down.  Large enough that the waits grown from
\* a small min pass the jitter step without saturating, as they do in the crate.
DurationMAX == 500000

\* How many setter calls one behaviour makes on the Backoff.
MaxSetCalls == 1

(***************************************************************************)
(* Inputs.                                                                 *)
(***************************************************************************)
\* The generators a caller creates from the one Backoff.
Gens == {"g1", "g2"}

\* Arguments of Backoff::new.  The last max is what `None` becomes.
NewAttempts == {0, 3}
NewMins == {1, DurationMAX}
NewMaxs == {100, DurationMAX}

\* Arguments of the setters.
MinInputs == {10}
MaxInputs == {5}
AttemptInputs == {1, U32MAX}
FactorInputs == {0, 3}
\* Thousandths: -0.1, 0.0, 0.005, 1.0, 1.5
JitterInputs == {0 - 100, 0, 5, 1000, 1500}

Min2(a, b) == IF a <= b THEN a ELSE b

(***************************************************************************)
(* Saturating arithmetic of u32 and of Duration.                           *)
(***************************************************************************)
SatAdd32(a, b) == Min2(a + b, U32MAX)

RECURSIVE SatPow32(_, _)
SatPow32(base, exp) ==
    IF exp = 0 THEN 1 ELSE Min2(base * SatPow32(base, exp - 1), U32MAX)

DurSatMul(d, k) == Min2(d * k, DurationMAX)
DurSatAdd(a, b) == Min2(a + b, DurationMAX)
DurSatSub(a, b) == IF b >= a THEN 0 ELSE a - b
DurDiv(d, k) == d \div k

(***************************************************************************)
(* Backoff: construction.                                                  *)
(***************************************************************************)
BackoffNew(max_attempts, min, max) ==
    [max_attempts |-> max_attempts, min |-> min, max |-> max,
     jitter |-> 300, factor |-> 2]

BackoffDefault ==
    [max_attempts |-> 3, min |-> 1, max |-> 100, jitter |-> 300, factor |-> 2]

(***************************************************************************)
(* IntoIter.                                                               *)
(***************************************************************************)
NoIter == [created |-> FALSE]

IntoIterWithCount(inner, retry_count) ==
    [created |-> TRUE, inner |-> inner, retry_count |-> retry_count]

IntoIterNew(inner) == IntoIterWithCount(inner, 0)

\* What the caller has seen of one generator: how many values it yielded, how
\* many of them were waits, and whether it has returned None.
NoHist == [yields |-> 0, waits |-> 0, exhausted |-> FALSE]

\* What the latest call of next returned, and on which generator.
NoOut == [gen |-> "none", kind |-> "NotCalled", d |-> 0]

\* The argument of the latest call of each setter that returned, if any.
NotGiven == [given |-> FALSE, v |-> 0]
Given(v) == [given |-> TRUE, v |-> v]
NoneSet == [max_attempts |-> NotGiven, min |-> NotGiven, max |-> NotGiven,
            jitter |-> NotGiven, factor |-> NotGiven]

Init ==
    /\ backoff \in {BackoffDefault}
                   \cup {BackoffNew(a, mn, mx) :
                           a \in NewAttempts, mn \in NewMins, mx \in NewMaxs}
    /\ iters = [g \in Gens |-> NoIter]
    /\ hist = [g \in Gens |-> NoHist]
    /\ out = NoOut
    /\ panic = "none"
    /\ setCalls = 0
    /\ lastSet = NoneSet

(***************************************************************************)
(* Backoff: accessors.                                                     *)
(***************************************************************************)
GetMin(b) == b.min
GetMax(b) == b.max
GetMaxAttempts(b) == b.max_attempts
GetJitter(b) == b.jitter
GetFactor(b) == b.factor

(***************************************************************************)
(* Backoff: setters.  Only set_jitter validates.                           *)
(***************************************************************************)
SetMin ==
    /\ panic = "none"
    /\ setCalls < MaxSetCalls
    /\ \E min \in MinInputs :
          /\ backoff' = [backoff EXCEPT !.min = min]
          /\ lastSet' = [lastSet EXCEPT !.min = Given(min)]
    /\ setCalls' = setCalls + 1
    /\ UNCHANGED <<iters, hist, out, panic>>

\* A set_max that assigns the min field.
SetMaxWritesMin ==
    /\ panic = "none"
    /\ setCalls < MaxSetCalls
    /\ \E max \in MaxInputs :
          /\ backoff' = [backoff EXCEPT !.min = max]
          /\ lastSet' = [lastSet EXCEPT !.max = Given(max)]
    /\ setCalls' = setCalls + 1
    /\ UNCHANGED <<iters, hist, out, panic>>

SetMax ==
    /\ panic = "none"
    /\ setCalls < MaxSetCalls
    /\ \E max \in MaxInputs :
          /\ backoff' = [backoff EXCEPT !.max = max]
          /\ lastSet' = [lastSet EXCEPT !.max = Given(max)]
    /\ setCalls' = setCalls + 1
    /\ UNCHANGED <<iters, hist, out, panic>>

\* A set_max_attempts that also writes through to the generators already created.
SetMaxAttemptsThroughReference ==
    /\ panic = "none"
    /\ setCalls < MaxSetCalls
    /\ \E max_attempts \in AttemptInputs :
          /\ backoff' = [backoff EXCEPT !.max_attempts = max_attempts]
          /\ lastSet' = [lastSet EXCEPT !.max_attempts = Given(max_attempts)]
          /\ iters' = [g \in Gens |->
                          IF iters[g].created
                          THEN [iters[g] EXCEPT !.inner.max_attempts = max_attempts]
                          ELSE iters[g]]
    /\ setCalls' = setCalls + 1
    /\ UNCHANGED <<hist, out, panic>>

SetMaxAttempts ==
    /\ panic = "none"
    /\ setCalls < MaxSetCalls
    /\ \E max_attempts \in AttemptInputs :
          /\ backoff' = [backoff EXCEPT !.max_attempts = max_attempts]
          /\ lastSet' = [lastSet EXCEPT !.max_attempts = Given(max_attempts)]
    /\ setCalls' = setCalls + 1
    /\ UNCHANGED <<iters, hist, out, panic>>

SetFactor ==
    /\ panic = "none"
    /\ setCalls < MaxSetCalls
    /\ \E factor \in FactorInputs :
          /\ backoff' = [backoff EXCEPT !.factor = factor]
          /\ lastSet' = [lastSet EXCEPT !.factor = Given(factor)]
    /\ setCalls' = setCalls + 1
    /\ UNCHANGED <<iters, hist, out, panic>>

\* set_jitter with the upper half of its assertion lost.
JitterAcceptedNoUpper(jitter) == jitter >= 0

\* The assertion of set_jitter: jitter >= 0f32 && jitter <= 1f32.
JitterAccepted(jitter) == jitter >= 0 /\ jitter <= 1000

SetJitterOk ==
    /\ panic = "none"
    /\ setCalls < MaxSetCalls
    /\ \E jitter \in JitterInputs :
          /\ JitterAccepted(jitter)
          /\ backoff' = [backoff EXCEPT !.jitter = jitter]
          /\ lastSet' = [lastSet EXCEPT !.jitter = Given(jitter)]
    /\ setCalls' = setCalls + 1
    /\ UNCHANGED <<iters, hist, out, panic>>

SetJitterPanic ==
    /\ panic = "none"
    /\ setCalls < MaxSetCalls
    /\ \E jitter \in JitterInputs : ~JitterAccepted(jitter)
    /\ panic' = "set_jitter"
    /\ setCalls' = setCalls + 1
    /\ UNCHANGED <<backoff, iters, hist, out, lastSet>>

(***************************************************************************)
(* Backoff::iter and IntoIterator for &Backoff: a generator over a clone.  *)
(* The first generator created is g1, the second g2.                       *)
(***************************************************************************)
CanCreate(g) ==
    /\ ~iters[g].created
    /\ g = "g2" => iters["g1"].created

IterCreate(g) ==
    /\ panic = "none"
    /\ CanCreate(g)
    /\ iters' = [iters EXCEPT ![g] = IntoIterNew(backoff)]
    /\ UNCHANGED <<backoff, hist, out, panic, setCalls, lastSet>>

(***************************************************************************)
(* IntoIter::next, piece by piece.                                         *)
(***************************************************************************)
\* An end check one call too late.
RetriesPlusTwo(inner) == SatAdd32(inner.max_attempts, 2)

\* The end check against the budget itself, without the added one.
RetriesNoSentinel(inner) == inner.max_attempts

\* let retries = self.inner.retries.saturating_add(1);
Retries(inner) == SatAdd32(inner.max_attempts, 1)

\* A counter that advances by two.
IncrementByTwo(retry_count) == SatAdd32(retry_count, 2)

\* self.retry_count = self.retry_count.saturating_add(1);
Increment(retry_count) == SatAdd32(retry_count, 1)

\* The exponent taken from the counter as it was before the increment.
ExponentBeforeIncrement(inner, retry_count) == SatPow32(inner.factor, retry_count - 1)

\* let exponent = self.inner.factor.saturating_pow(self.retry_count);
Exponent(inner, retry_count) == SatPow32(inner.factor, retry_count)

\* let duration = self.inner.min.saturating_mul(exponent);
RawDuration(inner, retry_count) == DurSatMul(inner.min, Exponent(inner, retry_count))

\* let jitter_factor = (self.inner.jitter * 100f32) as u32;
JitterFactor(jitter) == (jitter * 100) \div 1000

\* self.rng.u32(0..jitter_factor * 2): the values the draw can give.  fastrand
\* panics on an empty range.
RandomRange(jitter_factor) == 0 .. (jitter_factor * 2 - 1)

\* A jitter step whose grow branch adds the whole draw, not half of it.
ApplyJitterNoHalving(duration, jitter_factor, random) ==
    LET d100 == DurSatMul(duration, 100)
    IN  IF random < jitter_factor
        THEN DurDiv(DurSatSub(d100, DurDiv(DurSatMul(d100, random), 100)), 100)
        ELSE DurDiv(DurSatAdd(d100, DurDiv(DurSatMul(d100, random), 100)), 100)

\* A jitter step whose grow branch mirrors the shrink branch.
ApplyJitterSymmetric(duration, jitter_factor, random) ==
    LET d100 == DurSatMul(duration, 100)
    IN  IF random < jitter_factor
        THEN DurDiv(DurSatSub(d100, DurDiv(DurSatMul(d100, random), 100)), 100)
        ELSE DurDiv(DurSatAdd(d100, DurDiv(DurSatMul(d100, random - jitter_factor),
                                           100)), 100)

\* Lines 54-62: the jitter step on the unjittered duration.
ApplyJitter(duration, jitter_factor, random) ==
    LET d100 == DurSatMul(duration, 100)
    IN  IF random < jitter_factor
        THEN DurDiv(DurSatSub(d100, DurDiv(DurSatMul(d100, random), 100)), 100)
        ELSE DurDiv(DurSatAdd(d100, DurDiv(DurSatMul(d100, random \div 2), 100)), 100)

\* A clamp that forgets the upper bound.
ClampLowerOnly(d, min, max) == IF d < min THEN min ELSE d

\* A clamp that also rejects min = max.
ClampPanicsOnEqual(min, max) == min >= max

\* Ord::clamp asserts min <= max.
ClampPanics(min, max) == min > max

Clamp(d, min, max) == IF d < min THEN min ELSE IF d > max THEN max ELSE d

\* The Wait value of a call that reaches line 67.
WaitDuration(inner, retry_count, random) ==
    Clamp(ApplyJitter(RawDuration(inner, retry_count),
                      JitterFactor(inner.jitter), random),
          inner.min, inner.max)

\* The Wait values a call can return, one for each draw of line 53.
WaitDurations(inner, retry_count) ==
    {WaitDuration(inner, retry_count, random) :
        random \in RandomRange(JitterFactor(inner.jitter))}

Exhausted(g) == [gen |-> g, kind |-> "Exhausted", d |-> 0]
Stop(g) == [gen |-> g, kind |-> "Stop", d |-> 0]
Wait(g, d) == [gen |-> g, kind |-> "Wait", d |-> d]
Panicked(g) == [gen |-> g, kind |-> "Panic", d |-> 0]

Yielded(h, o) ==
    [h EXCEPT !.yields = @ + 1,
              !.waits = IF o.kind = "Wait" THEN @ + 1 ELSE @]

\* An end of sequence that rewinds the counter.
NextExhaustedRewinds(g) ==
    /\ panic = "none"
    /\ iters[g].created
    /\ iters[g].retry_count = SatAdd32(iters[g].inner.max_attempts, 1)
    /\ iters' = [iters EXCEPT ![g].retry_count = 0]
    /\ hist' = [hist EXCEPT ![g].exhausted = TRUE]
    /\ out' = [gen |-> g, kind |-> "Exhausted", d |-> 0]
    /\ UNCHANGED <<backoff, panic, setCalls, lastSet>>

\* return None;
NextExhausted(g) ==
    /\ panic = "none"
    /\ iters[g].created
    /\ iters[g].retry_count = Retries(iters[g].inner)
    /\ hist' = [hist EXCEPT ![g].exhausted = TRUE]
    /\ out' = Exhausted(g)
    /\ UNCHANGED <<backoff, iters, panic, setCalls, lastSet>>

\* return Some(None);
NextStop(g) ==
    /\ panic = "none"
    /\ iters[g].created
    /\ iters[g].retry_count # Retries(iters[g].inner)
    /\ Increment(iters[g].retry_count) = Retries(iters[g].inner)
    /\ iters' = [iters EXCEPT ![g].retry_count = Increment(@)]
    /\ hist' = [hist EXCEPT ![g] = Yielded(@, Stop(g))]
    /\ out' = Stop(g)
    /\ UNCHANGED <<backoff, panic, setCalls, lastSet>>

\* The draw at line 53 panics: the range is empty.
NextPanicRange(g) ==
    /\ panic = "none"
    /\ iters[g].created
    /\ iters[g].retry_count # Retries(iters[g].inner)
    /\ Increment(iters[g].retry_count) # Retries(iters[g].inner)
    /\ RandomRange(JitterFactor(iters[g].inner.jitter)) = {}
    /\ iters' = [iters EXCEPT ![g].retry_count = Increment(@)]
    /\ panic' = "rng_empty_range"
    /\ out' = Panicked(g)
    /\ UNCHANGED <<backoff, hist, setCalls, lastSet>>

\* The clamp at line 65 panics: min > max.
NextPanicClamp(g) ==
    /\ panic = "none"
    /\ iters[g].created
    /\ iters[g].retry_count # Retries(iters[g].inner)
    /\ Increment(iters[g].retry_count) # Retries(iters[g].inner)
    /\ RandomRange(JitterFactor(iters[g].inner.jitter)) # {}
    /\ ClampPanics(iters[g].inner.min, iters[g].inner.max)
    /\ iters' = [iters EXCEPT ![g].retry_count = Increment(@)]
    /\ panic' = "clamp_min_gt_max"
    /\ out' = Panicked(g)
    /\ UNCHANGED <<backoff, hist, setCalls, lastSet>>

\* A wait whose counter is one counter shared by all generators.
NextWaitSharedCount(g) ==
    /\ panic = "none"
    /\ iters[g].created
    /\ iters[g].retry_count # SatAdd32(iters[g].inner.max_attempts, 1)
    /\ SatAdd32(iters[g].retry_count, 1) # SatAdd32(iters[g].inner.max_attempts, 1)
    /\ iters[g].inner.min <= iters[g].inner.max
    /\ \E d \in WaitDurations(iters[g].inner, SatAdd32(iters[g].retry_count, 1)) :
          out' = [gen |-> g, kind |-> "Wait", d |-> d]
    /\ hist' = [hist EXCEPT ![g] = Yielded(@, out')]
    /\ iters' = [h \in Gens |->
                   IF iters[h].created
                   THEN [iters[h] EXCEPT !.retry_count = SatAdd32(@, 1)]
                   ELSE iters[h]]
    /\ UNCHANGED <<backoff, panic, setCalls, lastSet>>

\* return Some(Some(duration));
NextWait(g) ==
    /\ panic = "none"
    /\ iters[g].created
    /\ iters[g].retry_count # Retries(iters[g].inner)
    /\ Increment(iters[g].retry_count) # Retries(iters[g].inner)
    /\ ~ClampPanics(iters[g].inner.min, iters[g].inner.max)
    /\ \E d \in WaitDurations(iters[g].inner, Increment(iters[g].retry_count)) :
          out' = Wait(g, d)
    /\ hist' = [hist EXCEPT ![g] = Yielded(@, out')]
    /\ iters' = [iters EXCEPT ![g].retry_count = Increment(@)]
    /\ UNCHANGED <<backoff, panic, setCalls, lastSet>>

IterNext(g) ==
    \/ NextExhausted(g)
    \/ NextStop(g)
    \/ NextPanicRange(g)
    \/ NextPanicClamp(g)
    \/ NextWait(g)

Next ==
    \/ SetMin
    \/ SetMax
    \/ SetMaxAttempts
    \/ SetFactor
    \/ SetJitterOk
    \/ SetJitterPanic
    \/ \E g \in Gens : IterCreate(g)
    \/ \E g \in Gens : IterNext(g)

Spec == Init /\ [][Next]_vars

(***************************************************************************)
(* Claims.                                                                 *)
(***************************************************************************)
Created == {g \in Gens : iters[g].created}

\* C1: for every budget N >= 1 a drained generator has yielded exactly N
\* values, N-1 waits and then the stop, before it returns None.
C1_DrainedYieldsBudget ==
    \A g \in Created :
        (hist[g].exhausted /\ iters[g].inner.max_attempts >= 1)
            => /\ hist[g].yields = iters[g].inner.max_attempts
               /\ hist[g].waits = iters[g].inner.max_attempts - 1

\* C2: every Wait(d) that next returns lies between the min and the max of the
\* generator's configuration.
C2_WaitWithinBounds ==
    \A g \in Created :
        (out.gen = g /\ out.kind = "Wait")
            => /\ iters[g].inner.min <= out.d
               /\ out.d <= iters[g].inner.max

\* A wait whose unjittered duration lay above max was returned as max, and one
\* was returned strictly inside the bounds.
C2_Witness ==
    \E g \in Created :
        /\ out.gen = g
        /\ out.kind = "Wait"
        /\ RawDuration(iters[g].inner, iters[g].retry_count) > iters[g].inner.max
        /\ out.d = iters[g].inner.max
        /\ iters[g].inner.jitter > 0

\* C3: with jitter 0 the i-th wait (i from 0) is min * factor^i clamped to
\* [min, max], so every call that is neither the stop nor the end returns it.
C3_ZeroJitterExact ==
    \A g \in Created :
        (iters[g].inner.jitter = 0 /\ out.gen = g
           /\ out.kind \notin {"Stop", "Exhausted"})
            => /\ out.kind = "Wait"
               /\ out.d = Clamp(DurSatMul(iters[g].inner.min,
                                          SatPow32(iters[g].inner.factor,
                                                   hist[g].waits - 1)),
                                iters[g].inner.min, iters[g].inner.max)

\* C4: once a generator exists no call of next panics, whatever the
\* configuration the constructors and setters allow.
C4_NextNeverPanics == panic \notin {"rng_empty_range", "clamp_min_gt_max"}

C6_ZeroAttemptsYieldNothing ==
    \A g \in Created : iters[g].inner.max_attempts = 0 => hist[g].yields = 0

\* C7: with jitter 0 the draw over the empty range [0, 0) does not abort a
\* non-terminal call of next.
C7_ZeroJitterDrawCompletes ==
    \A g \in Created :
        (iters[g].inner.jitter = 0 /\ out.gen = g) => out.kind # "Panic"

\* C8: once next has returned None on a generator, every later call on it
\* returns None and leaves the generator as it is.
C8_ExhaustedAbsorbing ==
    [][\A g \in Gens :
          hist[g].exhausted
              => /\ iters'[g] = iters[g]
                 /\ hist'[g] = hist[g]
                 /\ out'.gen = g => out'.kind = "Exhausted"]_vars

\* A generator that yielded waits and the stop has returned None.
C8_Witness ==
    \E g \in Created :
        /\ hist[g].exhausted
        /\ hist[g].waits >= 1
        /\ out = Exhausted(g)

\* C9: generators made from one Backoff are independent: each starts at count
\* 0 over the configuration of that moment, a step that touches one generator
\* changes neither the other nor the Backoff, and a generator's counter is the
\* number of its own calls that got past the end check.
C9_GeneratorsIndependent ==
    [][\A g \in Gens :
          /\ (iters'[g] # iters[g] \/ hist'[g] # hist[g])
                => /\ backoff' = backoff
                   /\ \A h \in Gens \ {g} :
                         iters'[h] = iters[h] /\ hist'[h] = hist[h]
                   /\ out'.gen = g \/ ~iters[g].created
          /\ (~iters[g].created /\ iters'[g].created)
                => /\ iters'[g].retry_count = 0
                   /\ iters'[g].inner = backoff
                   /\ hist'[g] = NoHist
          /\ iters'[g].created
                => iters'[g].retry_count =
                      hist'[g].yields + (IF out' = Panicked(g) THEN 1 ELSE 0)]_vars

\* Both generators have been driven, to different counts.
C9_Witness ==
    /\ Created = Gens
    /\ hist["g1"].yields >= 1
    /\ hist["g2"].yields >= 2
    /\ iters["g1"].retry_count # iters["g2"].retry_count

\* C10: set_jitter panics for a value below 0 or above 1 and stores nothing,
\* and stores every value of [0, 1] as given, both ends included: the stored
\* jitter always lies in [0, 1].
C10_JitterValidated ==
    /\ [](/\ backoff.jitter >= 0 /\ backoff.jitter <= 1000
          /\ \A g \in Created :
                iters[g].inner.jitter >= 0 /\ iters[g].inner.jitter <= 1000
          /\ (panic = "none" /\ setCalls < MaxSetCalls)
                => \A v \in {0, 1000} :
                      ENABLED (SetJitterOk /\ backoff'.jitter = v))
    /\ [][/\ (panic' = "set_jitter" /\ panic # "set_jitter") => backoff' = backoff
          /\ backoff'.jitter # backoff.jitter
                => /\ backoff'.jitter \in JitterInputs
                   /\ panic' = "none"]_vars

\* A call of set_jitter was refused and the jitter is the one from before.
C10_Witness == panic = "set_jitter" /\ backoff.jitter = 300

\* C11: with jitter 0 and factor >= 1 the waits of one generator never
\* decrease: every call that is neither the stop nor the end returns a wait
\* that is at least the wait returned before it.
C11_ZeroJitterAscending ==
    [][\A g \in Gens :
          (/\ iters[g].created
           /\ iters[g].inner.jitter = 0
           /\ iters[g].inner.factor >= 1
           /\ iters'[g].retry_count # iters[g].retry_count
           /\ out'.kind # "Stop")
              => /\ out' .kind = "Wait"
                 /\ (out.gen = g /\ out.kind = "Wait") => out'.d >= out.d]_vars

\* C12: with the largest budget neither budget + 1 nor the counter's increment
\* wraps, the counter stays within u32, and every call of next returns a wait,
\* the stop or the end.
C12_MaxBudgetSafe ==
    \A g \in Created :
        iters[g].inner.max_attempts = U32MAX
            => /\ Retries(iters[g].inner) = U32MAX
               /\ iters[g].retry_count <= U32MAX
               /\ Increment(iters[g].retry_count) >= iters[g].retry_count
               /\ out.gen = g => out.kind \in {"Wait", "Stop", "Exhausted"}

\* C13: each accessor returns the argument of the latest call of its setter,
\* whatever generators were created and driven since.
C13_AccessorRoundTrip ==
    /\ lastSet.min.given => GetMin(backoff) = lastSet.min.v
    /\ lastSet.max.given => GetMax(backoff) = lastSet.max.v
    /\ lastSet.jitter.given => GetJitter(backoff) = lastSet.jitter.v
    /\ lastSet.factor.given => GetFactor(backoff) = lastSet.factor.v
    /\ lastSet.max_attempts.given
          => GetMaxAttempts(backoff) = lastSet.max_attempts.v

\* A value was set, a generator made after it has run to its end, and the
\* accessor still returns the value.
C13_Witness ==
    /\ lastSet.max.given
    /\ GetMax(backoff) = 5
    /\ \E g \in Created : hist[g].exhausted /\ iters[g].inner.max = 5

RECURSIVE Pow(_, _)
Pow(base, exp) == IF exp = 0 THEN 1 ELSE base * Pow(base, exp - 1)

\* min * factor^c, both operations saturating.
SaturatedRaw(inner, c) ==
    Min2(inner.min * Min2(Pow(inner.factor, c), U32MAX), DurationMAX)

C16_CounterDiscipline ==
    [][\A g \in Gens :
          /\ (~iters[g].created /\ iters'[g].created) => iters'[g].retry_count = 0
          /\ iters[g].created
                => /\ iters'[g].created
                   /\ iters'[g].inner = iters[g].inner
                   /\ iters'[g].retry_count >= iters[g].retry_count
                   /\ iters'[g].retry_count
                         <= Min2(iters[g].inner.max_attempts + 1, U32MAX)
                   /\ hist'[g].yields # hist[g].yields
                         => /\ hist'[g].yields = hist[g].yields + 1
                            /\ iters'[g].retry_count = iters[g].retry_count + 1
                   /\ (hist'[g].yields = hist[g].yields /\ out' = Exhausted(g))
                         => iters'[g].retry_count = iters[g].retry_count]_vars

\* A generator has yielded three values and its counter is 3.
C16_Witness ==
    \E g \in Created :
        /\ hist[g].yields = 3
        /\ iters[g].retry_count = 3
        /\ out.gen = g

\* The generators whose latest call returned a wait, the unjittered duration
\* of that call and the jitter factor it drew under.
Waited == {g \in Created : out.gen = g /\ out.kind = "Wait"}
RawOf(g) == RawDuration(iters[g].inner, iters[g].retry_count)
FactorOf(g) == JitterFactor(iters[g].inner.jitter)

\* C17 as stated, granting truncation to a whole tick below and no saturation
\* of raw * 100: whatever the draw, the jittered duration before the clamp
\* lies in [raw * (1 - jitter), raw * (1 + jitter / 2)].
C17_JitterWithinHalfGrowth ==
    \A g \in Waited :
        LET raw == RawOf(g)
            jitter_factor == FactorOf(g)
        IN  raw * 100 <= DurationMAX
               => \A random \in RandomRange(jitter_factor) :
                     LET x == ApplyJitter(raw, jitter_factor, random)
                     IN  /\ x >= (raw * (1000 - iters[g].inner.jitter)) \div 1000
                         /\ x * 2000 <= raw * (2000 + iters[g].inner.jitter)

\* C17, amended: whatever the draw, and provided raw * 100 does not saturate,
\* the jittered duration before the clamp lies in
\* [raw * (1 - jitter) rounded down, raw * (1 + jitter)].
C17_JitterWithinFullGrowth ==
    \A g \in Waited :
        LET raw == RawOf(g)
            jitter_factor == FactorOf(g)
        IN  raw * 100 <= DurationMAX
               => \A random \in RandomRange(jitter_factor) :
                     LET x == ApplyJitter(raw, jitter_factor, random)
                     IN  /\ x >= (raw * (1000 - iters[g].inner.jitter)) \div 1000
                         /\ x * 1000 <= raw * (1000 + iters[g].inner.jitter)

\* A wait was returned for which some draw grows the duration by more than
\* raw * jitter / 2 and some draw shrinks it.
C17_Witness ==
    \E g \in Waited :
        /\ RawOf(g) * 100 <= DurationMAX
        /\ \E random \in RandomRange(FactorOf(g)) :
              ApplyJitter(RawOf(g), FactorOf(g), random) * 2000
                 > RawOf(g) * (2000 + iters[g].inner.jitter)
        /\ \E random \in RandomRange(FactorOf(g)) :
              ApplyJitter(RawOf(g), FactorOf(g), random) < RawOf(g)

\* The adjustments (jittered minus unjittered duration) summed over the draws
\* lo .. hi, halving the range at each step.
RECURSIVE AdjustmentSum(_, _, _, _)
AdjustmentSum(raw, jitter_factor, lo, hi) ==
    IF lo > hi
    THEN 0
    ELSE IF lo = hi
         THEN ApplyJitter(raw, jitter_factor, lo) - raw
         ELSE AdjustmentSum(raw, jitter_factor, lo, (lo + hi) \div 2)
                 + AdjustmentSum(raw, jitter_factor, (lo + hi) \div 2 + 1, hi)

\* The same sum over every draw of the range.
TotalAdjustment(raw, jitter_factor) ==
    AdjustmentSum(raw, jitter_factor, 0, jitter_factor * 2 - 1)

\* The percentages the draws lo .. hi add (grow branch) or take away (shrink
\* branch), summed.
RECURSIVE PercentSum(_, _, _)
PercentSum(jitter_factor, lo, hi) ==
    IF lo > hi
    THEN 0
    ELSE IF lo = hi
         THEN (IF lo < jitter_factor THEN 0 - lo ELSE lo \div 2)
         ELSE PercentSum(jitter_factor, lo, (lo + hi) \div 2)
                 + PercentSum(jitter_factor, (lo + hi) \div 2 + 1, hi)

\* Neither the scaling by 100 nor the jitter amount of any draw saturates.
NothingSaturates(raw, jitter_factor) ==
    raw <= DurationMAX \div (100 * (jitter_factor + 1))

\* C18 as stated, granting each draw the loss of a tick to truncation: over
\* all the draws of the range the adjustments add up to zero.
C18_AdjustmentsCancel ==
    \A g \in Waited :
        LET raw == RawOf(g)
            jitter_factor == FactorOf(g)
            total == TotalAdjustment(raw, jitter_factor)
        IN  NothingSaturates(raw, jitter_factor)
               => /\ total <= 2 * jitter_factor
                  /\ total >= 0 - 2 * jitter_factor

\* C18, amended: when nothing saturates, the adjustments over all the draws
\* add up to raw * floor(jitter_factor^2 / 4) / 100, less at most one tick per
\* draw for truncation; the mean grows whenever jitter_factor >= 2.
C18_AdjustmentsGrowMean ==
    \A g \in Waited :
        LET raw == RawOf(g)
            jitter_factor == FactorOf(g)
            total == TotalAdjustment(raw, jitter_factor)
            percent == PercentSum(jitter_factor, 0, jitter_factor * 2 - 1)
        IN  NothingSaturates(raw, jitter_factor)
               => /\ percent = (jitter_factor * jitter_factor) \div 4
                  /\ 100 * total <= raw * percent
                  /\ 100 * total > raw * percent - 200 * jitter_factor

\* A wait was returned under a configuration whose adjustments add up to more
\* than truncation can take away.
C18_Witness ==
    \E g \in Waited :
        /\ NothingSaturates(RawOf(g), FactorOf(g))
        /\ TotalAdjustment(RawOf(g), FactorOf(g)) > 2 * FactorOf(g)

\* C19: a generator whose configuration has min <= max and a jitter of at
\* least 0.01 completes every call to next with a wait, the stop or the end,
\* whatever its budget, factor, durations and draw; a call that aborts is one
\* with an empty draw range (jitter < 0.01) or with min > max, nothing else.
C19_OnlyTwoAborts ==
    \A g \in Created :
        /\ (iters[g].inner.min <= iters[g].inner.max /\ iters[g].inner.jitter >= 10)
              => /\ out.gen = g => out.kind \in {"Wait", "Stop", "Exhausted"}
                 /\ RandomRange(JitterFactor(iters[g].inner.jitter)) # {}
                 /\ ~ClampPanics(iters[g].inner.min, iters[g].inner.max)
        /\ out = Panicked(g)
              => \/ panic = "rng_empty_range" /\ iters[g].inner.jitter < 10
                 \/ panic = "clamp_min_gt_max"
                       /\ iters[g].inner.min > iters[g].inner.max

\* A generator with the largest budget and the largest min returned a wait.
C19_Witness ==
    \E g \in Created :
        /\ iters[g].inner.max_attempts = U32MAX
        /\ iters[g].inner.min = DurationMAX
        /\ iters[g].inner.jitter >= 10
        /\ out = Wait(g, DurationMAX)

\* C20: a generator holds its own copy of the configuration.  A setter call
\* on the Backoff changes no generator's counter or configuration, and creating
\* or driving a generator leaves the Backoff as it was.
C20_GeneratorOwnsCopy ==
    [][/\ backoff' # backoff => iters' = iters /\ hist' = hist
       /\ iters' # iters => backoff' = backoff
       /\ \A g \in Created :
             /\ iters'[g].created
             /\ iters'[g].inner = iters[g].inner]_vars

\* A generator created with budget 3 returned its three waits and the stop
\* although the Backoff it came from has since been set to budget 1.
C20_Witness ==
    \E g \in Created :
        /\ iters[g].inner.max_attempts = 3
        /\ backoff.max_attempts = 1
        /\ hist[g].waits = 3
        /\ out = Stop(g)
====
